---------------------------- MODULE Spec2Model ----------------------------
(***************************************************************************)
(* The Ollama transport client of retro-llama-terminal-chat                *)
(* (ollamaService: getModels, sendMessage, checkStatus) and the stream     *)
(* decoder that sendMessage installs on the streamed reply.                *)
(*                                                                         *)
(* Text is a sequence of one-character strings.  A generation record       *)
(* {"response": t, "done": d} is written  { t d }  with d one of "T", "F", *)
(* so a record is a line of four characters and every proper fragment of   *)
(* it fails to parse, as a fragment of a JSON object does.                 *)
(***************************************************************************)
EXTENDS Naturals, Sequences, FiniteSets

VARIABLES
    op,          \* the service call in progress: none, getModels, sendMessage, checkStatus
    pc,          \* where that call stands
    model,       \* its model argument
    streamed,    \* sendMessage: onToken was passed
    tagsReply,   \* the reply GET /tags gave to this call
    models,      \* the value getModels returned to this call
    probe,       \* checkStatus: outcome of GET /version (none, ok, fail)
    fault,       \* the first transport failure this call met, and where
    postCount,   \* POSTs to /generate issued by this call
    body,        \* the reply's body: the streamed text, or a buffered reply's response field
    remaining,   \* the part of the body not yet delivered
    aligned,     \* every delivery so far ended at a line end
    errors,      \* error events the reply stream has emitted
    stream,      \* the Promise executor's closure: fullResponse, onToken calls, promise
    sendRes,     \* completion of sendMessage
    statusRes,   \* completion of checkStatus
    modelsRes,   \* completion of getModels
    calls,       \* two streamed sendMessage calls running side by side, each with its own closure
    messages,        \* TerminalChat state: the chat log
    input,           \* ... the input field, as words
    isGenerating,    \* ... a generation is awaited
    ollamaStatus,    \* ... the last stored status, or null
    availableModels, \* ... the names fetchModels stored
    selectedModel,   \* ... the model in use
    assistantIndex,  \* handleSubmit's local of the generation under way (a JS index, from 0)
    tasks,           \* async functions of the component suspended at an await
    turn,            \* where the last submit put its user and assistant messages
    inFlight,        \* sendMessage calls of handleSubmit not yet settled
    started          \* timer ticks, commands and generations so far

\* The variables of one service call, and the others.
svcVars == <<op, pc, model, streamed, tagsReply, models, probe, fault, postCount,
             body, remaining, aligned, errors, stream, sendRes, statusRes, modelsRes>>
pairVars == <<calls>>
uiVars == <<messages, input, isGenerating, ollamaStatus, availableModels, selectedModel,
            assistantIndex, tasks, turn, inFlight, started>>

vars == <<svcVars, pairVars, uiVars>>

---------------------------------------------------------------------------
\* Bounds of the model.
MaxLines == 3
MaxErrors == 1
MaxPairLines == 1
MaxUILines == 1
MaxTicks == 1
MaxCommands == 1
MaxEvents == 2

---------------------------------------------------------------------------
\* The server's side: model names, descriptors, replies and failures.

ModelNames == {"llama2", "mistral", "foo"}

Descriptor(n) == [name |-> n, modified_at |-> "2024-01-01T00:00:00Z", size |-> 1]

ModelLists ==
    { <<>>, <<Descriptor("llama2")>>, <<Descriptor("mistral")>>,
      <<Descriptor("llama2"), Descriptor("mistral")>> }

NoError == [isAxiosError |-> FALSE, code |-> "", message |-> ""]
ConnRefused ==
    [isAxiosError |-> TRUE, code |-> "ECONNREFUSED",
     message |-> "connect ECONNREFUSED 127.0.0.1:11434"]
BadResponse ==
    [isAxiosError |-> TRUE, code |-> "ERR_BAD_RESPONSE",
     message |-> "Request failed with status code 500"]
TypeError ==
    [isAxiosError |-> FALSE, code |-> "",
     message |-> "Cannot read properties of null (reading 'models')"]
Aborted == [isAxiosError |-> FALSE, code |-> "ECONNRESET", message |-> "aborted"]

RequestErrors == {ConnRefused, BadResponse}

\* What GET /tags can answer: a failed request, a null body, an object
\* without a models field, an object with one.
TagsReplies ==
    { [kind |-> "neterr", err |-> e, models |-> <<>>] : e \in RequestErrors }
    \cup { [kind |-> k, err |-> NoError, models |-> <<>>] : k \in {"nodata", "nomodels"} }
    \cup { [kind |-> "models", err |-> NoError, models |-> l] : l \in ModelLists }

NoReply == [kind |-> "none", err |-> NoError, models |-> <<>>]
NoFault == [where |-> "none", err |-> NoError]

---------------------------------------------------------------------------
\* Text.

NL == "\n"
Tokens == {"a", "b"}
Records == [response : Tokens, done : BOOLEAN]

Encode(r) == <<"{", r.response, IF r.done THEN "T" ELSE "F", "}">>

\* Lines a reply body is made of: records, a line that is no JSON, a blank line.
Malformed == <<"x">>
Blank == <<" ">>
Lines == { Encode(r) : r \in Records } \cup {Malformed, Blank}

RECURSIVE BodiesUpTo(_)
BodiesUpTo(n) ==
    IF n = 0 THEN { <<>> }
    ELSE LET prev == BodiesUpTo(n - 1)
         IN  prev \cup { b \o l \o <<NL>> : b \in prev, l \in Lines }

Bodies == BodiesUpTo(MaxLines)

\* The response field of a buffered reply.
Responses == { <<>>, <<"a">>, <<"a", "b">> }

RECURSIVE SplitAcc(_, _)
SplitAcc(text, cur) ==
    IF text = <<>> THEN <<cur>>
    ELSE IF Head(text) = NL THEN <<cur>> \o SplitAcc(Tail(text), <<>>)
    ELSE SplitAcc(Tail(text), Append(cur, Head(text)))

\* text.split('\n')
Split(text) == SplitAcc(text, <<>>)

RECURSIVE TrimLeft(_)
TrimLeft(s) == IF s # <<>> /\ Head(s) = " " THEN TrimLeft(Tail(s)) ELSE s

RECURSIVE TrimRight(_)
TrimRight(s) ==
    IF s # <<>> /\ s[Len(s)] = " " THEN TrimRight(SubSeq(s, 1, Len(s) - 1)) ELSE s

\* line.trim()
Trim(s) == TrimRight(TrimLeft(s))

\* .filter(line => line.trim() !== '')
NonBlank(ls) == SelectSeq(ls, LAMBDA l : Trim(l) # <<>>)

\* JSON.parse(line): the record, or a SyntaxError.
JsonParse(line) ==
    LET t == Trim(line)
    IN  IF /\ Len(t) = 4
           /\ t[1] = "{"
           /\ t[2] \in Tokens
           /\ t[3] \in {"T", "F"}
           /\ t[4] = "}"
        THEN [ok |-> TRUE, response |-> t[2], done |-> (t[3] = "T")]
        ELSE [ok |-> FALSE, response |-> "", done |-> FALSE]

RECURSIVE Join(_)
\* names.join(', ')
Join(names) ==
    IF names = <<>> THEN <<>>
    ELSE IF Len(names) = 1 THEN <<names[1]>>
    ELSE <<names[1], ", ">> \o Join(Tail(names))

\* models.map(m => m.name)
Names(ms) == [i \in 1..Len(ms) |-> ms[i].name]

Range(s) == { s[i] : i \in 1..Len(s) }


---------------------------------------------------------------------------
\* Completions.

Return(v) == [threw |-> FALSE, value |-> v, err |-> NoError]
Throw(e) == [threw |-> TRUE, value |-> <<>>, err |-> e]

Pending == [status |-> "pending", value |-> <<>>, err |-> NoError]
Returned(v) == [status |-> "returned", value |-> v, err |-> NoError]
Rejected(e) == [status |-> "rejected", value |-> <<>>, err |-> e]

\* Faulty variant: every resolve call settles the promise anew.
ResolveAgain(p, v) == Returned(v)

\* Faulty variant: every reject call settles the promise anew.
RejectAgain(p, e) == Rejected(e)

\* resolve(v) and reject(e) of a Promise: only the first settles it.
Resolve(p, v) == IF p.status = "pending" THEN Returned(v) ELSE p
Reject(p, e) == IF p.status = "pending" THEN Rejected(e) ELSE p

---------------------------------------------------------------------------
\* getModels

\* The try block: axios.get(.../tags), then response.data.models || [].
TryGetModels(reply) ==
    IF reply.kind = "neterr" THEN Throw(reply.err)
    ELSE IF reply.kind = "nodata" THEN Throw(TypeError)
    ELSE IF reply.kind = "models" THEN Return(reply.models)
    ELSE Return(<<>>)

\* Faulty variant: getModels without its catch block.
getModelsNoCatch(reply) == TryGetModels(reply)

getModels(reply) ==
    LET r == TryGetModels(reply)
    IN  IF r.threw THEN Return(<<>>) ELSE r

\* Faulty variant: no pre-check, every model passes.
modelExistsAlways(ms, m) == TRUE

\* models.some(m => m.name === model)
modelExists(ms, m) == \E i \in 1..Len(ms) : ms[i].name = m

---------------------------------------------------------------------------
\* sendMessage

NotFoundMessage(ms, m) ==
    <<"Error: Model \"", m, "\" not found. Available models: ">>
    \o (IF Join(Names(ms)) = <<>> THEN <<"None">> ELSE Join(Names(ms)))
    \o <<". Use \"ollama pull ", m, "\" to download it.">>

ConnectMessage ==
    <<"Error: Could not connect to Ollama. Make sure it is running with \"ollama serve\" at http://localhost:11434.">>

GenericMessage(e, m) ==
    <<"Error communicating with Ollama: ", e.message,
      ". Make sure you have pulled the model with \"ollama pull ", m, "\".">>

\* The catch block of sendMessage.
CatchMessage(e, m) ==
    IF e.isAxiosError /\ e.code = "ECONNREFUSED"
    THEN ConnectMessage
    ELSE GenericMessage(e, m)

\* The closure of the Promise executor as streaming starts.  parsed is the
\* log of the records JSON.parse has returned, onTokenCalls the log of the
\* arguments onToken was called with.
InitStream ==
    [fullResponse |-> <<>>, onTokenCalls |-> <<>>, parsed |-> <<>>, promise |-> Pending]

\* Faulty variant: resolve(token) in place of resolve(fullResponse).
ProcessRecordResolveToken(st, rec) ==
    [fullResponse |-> Append(st.fullResponse, rec.response),
     onTokenCalls |-> Append(st.onTokenCalls, rec.response),
     parsed       |-> Append(st.parsed, [response |-> rec.response, done |-> rec.done]),
     promise      |-> IF rec.done THEN Resolve(st.promise, <<rec.response>>) ELSE st.promise]

\* The body of the for loop, for a line that parsed.
ProcessRecord(st, rec) ==
    LET full == Append(st.fullResponse, rec.response)
    IN  [fullResponse |-> full,
         onTokenCalls |-> Append(st.onTokenCalls, rec.response),
         parsed       |-> Append(st.parsed, [response |-> rec.response, done |-> rec.done]),
         promise      |-> IF rec.done THEN Resolve(st.promise, full) ELSE st.promise]

RECURSIVE ForLines(_, _)
\* for (const line of lines) inside try: a line that does not parse throws,
\* and the catch around the loop ends the handler.
ForLines(st, lines) ==
    IF lines = <<>> THEN st
    ELSE LET rec == JsonParse(Head(lines))
         IN  IF ~rec.ok THEN st
             ELSE ForLines(ProcessRecord(st, rec), Tail(lines))

\* response.data.on('data', chunk => ...)
dataHandler(st, chunk) == ForLines(st, NonBlank(Split(chunk)))

\* response.data.on('error', err => reject(err))
errorHandler(st, e) == [st EXCEPT !.promise = Reject(@, e)]

\* return new Promise(...) without await: the caller's promise follows the
\* inner one, a rejection included; the catch block does not see it.
Adopt(p) == p

---------------------------------------------------------------------------
\* checkStatus

\* Faulty variant: checkStatus without its catch block.
CheckStatusRethrow(e) == [threw |-> TRUE, running |-> FALSE, modelAvailable |-> FALSE]

\* The catch block of checkStatus.
CheckStatusCatch(e) == [threw |-> FALSE, running |-> FALSE, modelAvailable |-> FALSE]

\* Faulty variant: available as soon as any model is listed.
CheckStatusListedAny(reply, m) ==
    LET r == getModels(reply)
    IN  [threw |-> FALSE, running |-> TRUE, modelAvailable |-> (r.value # <<>>)]

\* After GET /version succeeded: getModels, then models.some(...).
CheckStatusListed(reply, m) ==
    LET r == getModels(reply)
    IN  IF r.threw THEN CheckStatusCatch(r.err)
        ELSE [threw |-> FALSE, running |-> TRUE, modelAvailable |-> modelExists(r.value, m)]

NoStatus == [threw |-> FALSE, running |-> FALSE, modelAvailable |-> FALSE]

---------------------------------------------------------------------------
\* Two streamed calls of sendMessage in flight together.  Each call of the
\* async function has its own fullResponse, Promise and handlers.

CallIds == {1, 2}

IdleCall ==
    [pc |-> "idle", body |-> <<>>, remaining |-> <<>>, errored |-> FALSE, stream |-> InitStream]

\* Faulty variant: fullResponse declared once for the module, not per call.
PairDataShared(cs, c, chunk) ==
    LET new == dataHandler(cs[c].stream, chunk)
    IN  [d \in CallIds |->
            [cs[d] EXCEPT !.stream =
                IF d = c THEN new ELSE [@ EXCEPT !.fullResponse = new.fullResponse]]]

\* A 'data' event of call c runs c's handler on c's closure.
PairData(cs, c, chunk) == [cs EXCEPT ![c].stream = dataHandler(@, chunk)]

---------------------------------------------------------------------------
\* TerminalChat: the component's state, its messages and its handlers.

Msg(r, c) == [role |-> r, content |-> c]

ReadyMessage ==
    Msg("assistant", <<"Terminal ready. Ollama connected. Type your message and press Enter.">>)

UnavailableMessage(m, ms) ==
    Msg("system",
        <<"Ollama is running, but model \"", m, "\" is not available. ">>
        \o (IF Len(ms) > 0
            THEN <<"Available models: ">> \o Join(Names(ms)) \o <<".">>
            ELSE <<"No models found.">>)
        \o <<" Please run \"ollama pull ", m, "\" in your terminal to download it.">>)

NotConnectedMessage == Msg("system", ConnectMessage)

SubmitErrorMessage ==
    Msg("system", <<"Error communicating with Ollama. Please try again.">>)

HelpMessages ==
    << Msg("system", <<"--- HELP ---">>),
       Msg("system", <<"/models - List available models">>),
       Msg("system", <<"/use [model] - Switch to a different model">>),
       Msg("system", <<"/clear - Clear chat history">>),
       Msg("system", <<"/status - Check Ollama connection status">>),
       Msg("system", <<"/help - Show this help message">>) >>

ModelsMessages(ms) ==
    IF Len(ms) > 0
    THEN << Msg("system", <<"--- AVAILABLE MODELS ---">>), Msg("system", Join(Names(ms))) >>
    ELSE << Msg("system",
                <<"No models available. Use \"ollama pull [model]\" to download models.">>) >>

SwitchMessage(m) == Msg("system", <<"Switching to model: ", m>>)

UseUnavailableMessage(m) ==
    Msg("system",
        <<"Model \"", m, "\" is not available. Please run \"ollama pull ", m,
          "\" in your terminal.">>)

StatusMessages(st, m) ==
    << Msg("system", <<"--- STATUS ---">>),
       Msg("system", <<"Ollama server: ", IF st.running THEN "Running" ELSE "Not running">>),
       Msg("system",
           <<"Model \"", m, "\": ",
             IF st.modelAvailable THEN "Available" ELSE "Not available">>) >>

UnknownMessage(cmd) ==
    Msg("system",
        <<"Unknown command: ">> \o cmd \o <<". Type /help for available commands.">>)

\* useState(null) of ollamaStatus, and a stored status.  checkedFor records
\* the model the stored status was asked for.
NullStatus ==
    [set |-> FALSE, running |-> FALSE, modelAvailable |-> FALSE, checkedFor |-> "llama2"]
StoredStatus(st, m) ==
    [set |-> TRUE, running |-> st.running, modelAvailable |-> st.modelAvailable,
     checkedFor |-> m]

\* ollamaStatus && (!ollamaStatus.running || !ollamaStatus.modelAvailable)
StatusBlocks ==
    ollamaStatus.set /\ (~ollamaStatus.running \/ ~ollamaStatus.modelAvailable)

\* The disabled attribute of the input.
InputDisabled == isGenerating \/ StatusBlocks

\* What the user types: a prompt or a command, as words.
Prompt == <<"hi">>
CommandWords == {"/help", "/clear", "/models", "/use", "/status", "/nope"}
Inputs ==
    { Prompt, <<"/help">>, <<"/clear">>, <<"/models">>, <<"/status">>, <<"/nope">>,
      <<"/use", "mistral">>, <<"/use", "foo">> }

\* What GET /tags answers while the component runs.
UITagsReplies ==
    { [kind |-> "neterr", err |-> ConnRefused, models |-> <<>>],
      [kind |-> "models", err |-> NoError, models |-> <<>>],
      [kind |-> "models", err |-> NoError, models |-> <<Descriptor("llama2")>>],
      [kind |-> "models", err |-> NoError, models |-> <<Descriptor("mistral")>>] }

\* input.startsWith('/')
IsCommand(text) == text # <<>> /\ Head(text) \in CommandWords

\* An async function of the component suspended at an await: checkOllama at
\* checkStatus (stage status) or at fetchModels (stage models), and
\* handleCommand at fetchModels (/models) or at checkStatus (/use, /status).
\* model is the model its closure holds.
Task(k, m, st, av) == [kind |-> k, model |-> m, stage |-> st, available |-> av]
CheckOllamaTask(m) == Task("checkOllama", m, "status", FALSE)

NoTurn == [user |-> 0, assistant |-> 0, prompt |-> <<>>]

\* Submitted prompts, submitted commands and timer ticks so far.
Events == started.turns + started.commands + started.ticks

\* Faulty variant: handleSubmit leaves isGenerating as it was.
GeneratingNotSet == FALSE

\* Faulty variant: no finally block, isGenerating stays set.
GeneratingKept == TRUE

\* setIsGenerating(true) before the call, setIsGenerating(false) in finally.
GeneratingOnSubmit == TRUE
GeneratingAfterSettle == FALSE

\* The onToken callback of handleSubmit, as a state update of messages.
OnToken(msgs, idx, token) ==
    IF idx + 1 \in DOMAIN msgs
    THEN [msgs EXCEPT ![idx + 1].content = Append(@, token)]
    ELSE msgs

RECURSIVE OnTokens(_, _, _)
OnTokens(msgs, idx, tokens) ==
    IF tokens = <<>> THEN msgs
    ELSE OnTokens(OnToken(msgs, idx, Head(tokens)), idx, Tail(tokens))

\* What checkStatus resolves with, given the probe's outcome and the listing.
CheckStatusResult(probeOk, reply, m) ==
    IF probeOk THEN CheckStatusListed(reply, m) ELSE CheckStatusCatch(ConnRefused)

---------------------------------------------------------------------------
Init ==
    /\ op = "none"
    /\ pc = "idle"
    /\ model = "llama2"
    /\ streamed = FALSE
    /\ tagsReply = NoReply
    /\ models = <<>>
    /\ probe = "none"
    /\ fault = NoFault
    /\ postCount = 0
    /\ body = <<>>
    /\ remaining = <<>>
    /\ aligned = TRUE
    /\ errors = 0
    /\ stream = InitStream
    /\ sendRes = Pending
    /\ statusRes = NoStatus
    /\ modelsRes = Return(<<>>)
    /\ calls = [c \in CallIds |-> IdleCall]
    /\ messages = <<>>
    /\ input = <<>>
    /\ isGenerating = FALSE
    /\ ollamaStatus = NullStatus
    /\ availableModels = <<>>
    /\ selectedModel = "llama2"
    /\ assistantIndex = 0
    /\ tasks = <<CheckOllamaTask("llama2")>>
    /\ turn = NoTurn
    /\ inFlight = 0
    /\ started = [ticks |-> 0, commands |-> 0, turns |-> 0]

\* A call begins: everything of the previous call is gone (the service keeps
\* no state between calls).
Begin(o, p, m, s) ==
    /\ op = "none"
    /\ op' = o
    /\ pc' = p
    /\ model' = m
    /\ streamed' = s
    /\ UNCHANGED <<tagsReply, models, probe, fault, postCount, body, remaining,
                   aligned, errors, stream, sendRes, statusRes, modelsRes>>

\* ---- getModels() ----
GetModelsCall == Begin("getModels", "tags", "llama2", FALSE)

GetModelsReply ==
    /\ op = "getModels" /\ pc = "tags"
    /\ \E reply \in TagsReplies :
          /\ tagsReply' = reply
          /\ modelsRes' = getModels(reply)
          /\ fault' = IF reply.kind = "neterr"
                      THEN [where |-> "tags", err |-> reply.err] ELSE fault
    /\ pc' = "done"
    /\ UNCHANGED <<op, model, streamed, models, probe, postCount, body, remaining,
                   aligned, errors, stream, sendRes, statusRes>>

\* ---- sendMessage(message, model, onToken?) ----
SendMessageCall ==
    \E m \in ModelNames, s \in BOOLEAN : Begin("sendMessage", "tags", m, s)

\* await this.getModels() returns; the pre-check; the POST is issued.
SendListed ==
    /\ op = "sendMessage" /\ pc = "tags"
    /\ \E reply \in TagsReplies :
          LET r == getModels(reply)
          IN  /\ tagsReply' = reply
              /\ fault' = IF reply.kind = "neterr"
                          THEN [where |-> "tags", err |-> reply.err] ELSE fault
              /\ IF r.threw
                 THEN /\ sendRes' = Returned(CatchMessage(r.err, model))
                      /\ pc' = "done"
                      /\ UNCHANGED <<models, postCount>>
                 ELSE /\ models' = r.value
                      /\ IF ~modelExists(r.value, model)
                         THEN /\ sendRes' = Returned(NotFoundMessage(r.value, model))
                              /\ pc' = "done"
                              /\ UNCHANGED postCount
                         ELSE /\ pc' = "post"
                              /\ postCount' = postCount + 1
                              /\ UNCHANGED sendRes
    /\ UNCHANGED <<op, model, streamed, probe, body, remaining, aligned, errors,
                   stream, statusRes, modelsRes>>

\* Faulty variant: a failed POST is sent again.
SendPostFailsRetry ==
    /\ op = "sendMessage" /\ pc = "post"
    /\ \E e \in RequestErrors : fault' = [where |-> "post", err |-> e]
    /\ postCount' = postCount + 1
    /\ UNCHANGED <<op, pc, model, streamed, tagsReply, models, probe, body, remaining,
                   aligned, errors, stream, sendRes, statusRes, modelsRes>>

\* await axios.post(.../generate) throws: the catch block.
SendPostFails ==
    /\ op = "sendMessage" /\ pc = "post"
    /\ \E e \in RequestErrors :
          /\ fault' = [where |-> "post", err |-> e]
          /\ sendRes' = Returned(CatchMessage(e, model))
    /\ pc' = "done"
    /\ UNCHANGED <<op, model, streamed, tagsReply, models, probe, postCount, body,
                   remaining, aligned, errors, stream, statusRes, modelsRes>>

\* Buffered mode: return response.data.response.
SendPostBuffered ==
    /\ op = "sendMessage" /\ pc = "post" /\ ~streamed
    /\ \E resp \in Responses : body' = resp /\ sendRes' = Returned(resp)
    /\ pc' = "done"
    /\ UNCHANGED <<op, model, streamed, tagsReply, models, probe, fault, postCount,
                   remaining, aligned, errors, stream, statusRes, modelsRes>>

\* Streamed mode: the reply's headers arrived, the handlers are installed and
\* the new Promise is returned.
SendPostStreamed ==
    /\ op = "sendMessage" /\ pc = "post" /\ streamed
    /\ \E b \in Bodies : body' = b /\ remaining' = b
    /\ stream' = InitStream
    /\ sendRes' = Adopt(InitStream.promise)
    /\ pc' = "streaming"
    /\ UNCHANGED <<op, model, streamed, tagsReply, models, probe, fault, postCount,
                   aligned, errors, statusRes, modelsRes>>

\* A 'data' event: the transport hands over the next k characters.
Deliver ==
    /\ op = "sendMessage" /\ pc = "streaming"
    /\ \E k \in 1..Len(remaining) :
          LET chunk == SubSeq(remaining, 1, k)
          IN  /\ stream' = dataHandler(stream, chunk)
              /\ remaining' = SubSeq(remaining, k + 1, Len(remaining))
              /\ aligned' = (aligned /\ chunk[k] = NL)
    /\ sendRes' = Adopt(stream'.promise)
    /\ UNCHANGED <<op, pc, model, streamed, tagsReply, models, probe, fault,
                   postCount, body, errors, statusRes, modelsRes>>

\* An 'error' event on the reply stream.
StreamError ==
    /\ op = "sendMessage" /\ pc = "streaming"
    /\ errors < MaxErrors
    /\ errors' = errors + 1
    /\ stream' = errorHandler(stream, Aborted)
    /\ fault' = IF fault.where = "none" THEN [where |-> "stream", err |-> Aborted] ELSE fault
    /\ sendRes' = Adopt(stream'.promise)
    /\ UNCHANGED <<op, pc, model, streamed, tagsReply, models, probe, postCount,
                   body, remaining, aligned, statusRes, modelsRes>>

\* ---- checkStatus(model) ----
CheckStatusCall == \E m \in ModelNames : Begin("checkStatus", "version", m, FALSE)

\* await axios.get(.../version) throws: the catch block.
CheckProbeFails ==
    /\ op = "checkStatus" /\ pc = "version"
    /\ \E e \in RequestErrors :
          /\ fault' = [where |-> "version", err |-> e]
          /\ statusRes' = CheckStatusCatch(e)
    /\ probe' = "fail"
    /\ pc' = "done"
    /\ UNCHANGED <<op, model, streamed, tagsReply, models, postCount, body, remaining,
                   aligned, errors, stream, sendRes, modelsRes>>

CheckProbeOk ==
    /\ op = "checkStatus" /\ pc = "version"
    /\ probe' = "ok"
    /\ pc' = "tags"
    /\ UNCHANGED <<op, model, streamed, tagsReply, models, fault, postCount, body,
                   remaining, aligned, errors, stream, sendRes, statusRes, modelsRes>>

CheckListed ==
    /\ op = "checkStatus" /\ pc = "tags"
    /\ \E reply \in TagsReplies :
          /\ tagsReply' = reply
          /\ models' = getModels(reply).value
          /\ fault' = IF reply.kind = "neterr"
                      THEN [where |-> "tags", err |-> reply.err] ELSE fault
          /\ statusRes' = CheckStatusListed(reply, model)
    /\ pc' = "done"
    /\ UNCHANGED <<op, model, streamed, probe, postCount, body, remaining, aligned,
                   errors, stream, sendRes, modelsRes>>

\* The call is over (or, for a stream that has ended, abandoned): its locals
\* are dropped and the next call starts from scratch.
Finish ==
    /\ op # "none"
    /\ pc = "done" \/ (pc = "streaming" /\ remaining = <<>>)
    /\ op' = "none"
    /\ pc' = "idle"
    /\ model' = "llama2"
    /\ streamed' = FALSE
    /\ tagsReply' = NoReply
    /\ models' = <<>>
    /\ probe' = "none"
    /\ fault' = NoFault
    /\ postCount' = 0
    /\ body' = <<>>
    /\ remaining' = <<>>
    /\ aligned' = TRUE
    /\ errors' = 0
    /\ stream' = InitStream
    /\ sendRes' = Pending
    /\ statusRes' = NoStatus
    /\ modelsRes' = Return(<<>>)

Next ==
    \/ GetModelsCall /\ UNCHANGED <<pairVars, uiVars>>
    \/ GetModelsReply /\ UNCHANGED <<pairVars, uiVars>>
    \/ SendMessageCall /\ UNCHANGED <<pairVars, uiVars>>
    \/ SendListed /\ UNCHANGED <<pairVars, uiVars>>
    \/ SendPostFails /\ UNCHANGED <<pairVars, uiVars>>
    \/ SendPostBuffered /\ UNCHANGED <<pairVars, uiVars>>
    \/ SendPostStreamed /\ UNCHANGED <<pairVars, uiVars>>
    \/ Deliver /\ UNCHANGED <<pairVars, uiVars>>
    \/ StreamError /\ UNCHANGED <<pairVars, uiVars>>
    \/ CheckStatusCall /\ UNCHANGED <<pairVars, uiVars>>
    \/ CheckProbeFails /\ UNCHANGED <<pairVars, uiVars>>
    \/ CheckProbeOk /\ UNCHANGED <<pairVars, uiVars>>
    \/ CheckListed /\ UNCHANGED <<pairVars, uiVars>>
    \/ Finish /\ UNCHANGED <<pairVars, uiVars>>

Spec == Init /\ [][Next]_vars

---------------------------------------------------------------------------
\* TerminalChat: the handlers, with the service's sendMessage steps above as
\* the call handleSubmit awaits.

RemoveAt(s, i) == SubSeq(s, 1, i - 1) \o SubSeq(s, i + 1, Len(s))

\* ollamaService.sendMessage(input, selectedModel, onToken) is entered: the
\* call runs up to its first await.  The service variables describe the call
\* handleSubmit made last.
CallSendMessage(m) ==
    /\ op' = "sendMessage"
    /\ pc' = "tags"
    /\ model' = m
    /\ streamed' = TRUE
    /\ tagsReply' = NoReply
    /\ models' = <<>>
    /\ probe' = "none"
    /\ fault' = NoFault
    /\ postCount' = 0
    /\ body' = <<>>
    /\ remaining' = <<>>
    /\ aligned' = TRUE
    /\ errors' = 0
    /\ stream' = InitStream
    /\ sendRes' = Pending
    /\ statusRes' = NoStatus
    /\ modelsRes' = Return(<<>>)

\* handleSubmit past its guards, for a prompt.
Generate(text) ==
    /\ Events < MaxEvents
    /\ started' = [started EXCEPT !.turns = @ + 1]
    /\ messages' = messages \o <<Msg("user", text), Msg("assistant", <<>>)>>
    /\ input' = <<>>
    /\ isGenerating' = GeneratingOnSubmit
    /\ assistantIndex' = Len(messages)
    /\ turn' = [user |-> Len(messages) + 1, assistant |-> Len(messages) + 2, prompt |-> text]
    /\ inFlight' = inFlight + 1
    /\ CallSendMessage(selectedModel)
    /\ UNCHANGED <<ollamaStatus, availableModels, selectedModel, tasks>>

\* handleCommand up to its first await, or to its end when it has none.
HandleCommand(text) ==
    /\ started.commands < MaxCommands
    /\ Events < MaxEvents
    /\ started' = [started EXCEPT !.commands = @ + 1]
    /\ CASE text = <<"/help">> ->
              /\ messages' = messages \o HelpMessages
              /\ input' = <<>>
              /\ UNCHANGED <<selectedModel, tasks>>
         [] text = <<"/clear">> ->
              /\ messages' = <<>>
              /\ input' = <<>>
              /\ UNCHANGED <<selectedModel, tasks>>
         [] text = <<"/models">> ->
              /\ tasks' = Append(tasks, Task("models", selectedModel, "models", FALSE))
              /\ input' = text
              /\ UNCHANGED <<messages, selectedModel>>
         [] Len(text) = 2 /\ Head(text) = "/use" ->
              LET m == text[2]
              IN  /\ selectedModel' = m
                  /\ messages' = Append(messages, SwitchMessage(m))
                  /\ tasks' = Append(tasks, Task("use", m, "status", FALSE))
                              \o (IF m # selectedModel THEN <<CheckOllamaTask(m)>> ELSE <<>>)
                  /\ input' = text
         [] text = <<"/status">> ->
              /\ tasks' = Append(tasks, Task("status", selectedModel, "status", FALSE))
              /\ input' = text
              /\ UNCHANGED <<messages, selectedModel>>
         [] OTHER ->
              /\ messages' = Append(messages, UnknownMessage(text))
              /\ input' = <<>>
              /\ UNCHANGED <<selectedModel, tasks>>
    /\ UNCHANGED <<svcVars, isGenerating, ollamaStatus, availableModels, assistantIndex,
                   turn, inFlight>>

handleSubmit(text) ==
    IF text = <<>> \/ isGenerating
    THEN input' = text
         /\ UNCHANGED <<svcVars, messages, isGenerating, ollamaStatus, availableModels,
                        selectedModel, assistantIndex, tasks, turn, inFlight, started>>
    ELSE IF IsCommand(text) THEN HandleCommand(text)
    ELSE Generate(text)

\* The user types a line into the enabled input and presses Enter.
Enter ==
    /\ ~InputDisabled
    /\ \E text \in Inputs : handleSubmit(text)
    /\ UNCHANGED pairVars

\* The form's submit event reaches handleSubmit with a prompt while a
\* generation is awaited (the disabled input itself takes no keys).
SubmitWhileGenerating ==
    /\ isGenerating
    /\ handleSubmit(Prompt)
    /\ UNCHANGED pairVars

\* The interval of the current effect fires: checkOllama starts.
Tick ==
    /\ started.ticks < MaxTicks
    /\ Events < MaxEvents
    /\ started' = [started EXCEPT !.ticks = @ + 1]
    /\ tasks' = Append(tasks, CheckOllamaTask(selectedModel))
    /\ UNCHANGED <<svcVars, pairVars, messages, input, isGenerating, ollamaStatus,
                   availableModels, selectedModel, assistantIndex, turn, inFlight>>

\* checkOllama: checkStatus resolved.
CheckOllamaStatus ==
    /\ \E i \in 1..Len(tasks), probeOk \in BOOLEAN, reply \in UITagsReplies :
          LET t == tasks[i]
              st == CheckStatusResult(probeOk, reply, t.model)
          IN  /\ t.kind = "checkOllama" /\ t.stage = "status"
              /\ ollamaStatus' = StoredStatus(st, t.model)
              /\ IF st.running
                 THEN /\ tasks' = [tasks EXCEPT ![i].stage = "models",
                                                ![i].available = st.modelAvailable]
                      /\ UNCHANGED messages
                 ELSE /\ tasks' = RemoveAt(tasks, i)
                      /\ messages' = Append(messages, NotConnectedMessage)
    /\ UNCHANGED <<svcVars, pairVars, input, isGenerating, availableModels, selectedModel,
                   assistantIndex, turn, inFlight, started>>

\* checkOllama: fetchModels resolved.
CheckOllamaModels ==
    /\ \E i \in 1..Len(tasks), reply \in UITagsReplies :
          LET t == tasks[i]
              ms == getModels(reply).value
          IN  /\ t.kind = "checkOllama" /\ t.stage = "models"
              /\ availableModels' = Names(ms)
              /\ messages' = Append(messages,
                                    IF t.available THEN ReadyMessage
                                    ELSE UnavailableMessage(t.model, ms))
              /\ tasks' = RemoveAt(tasks, i)
    /\ UNCHANGED <<svcVars, pairVars, input, isGenerating, ollamaStatus, selectedModel,
                   assistantIndex, turn, inFlight, started>>

\* /models: fetchModels resolved.
CommandModelsDone ==
    /\ \E i \in 1..Len(tasks), reply \in UITagsReplies :
          LET ms == getModels(reply).value
          IN  /\ tasks[i].kind = "models"
              /\ availableModels' = Names(ms)
              /\ messages' = messages \o ModelsMessages(ms)
              /\ tasks' = RemoveAt(tasks, i)
    /\ input' = <<>>
    /\ UNCHANGED <<svcVars, pairVars, isGenerating, ollamaStatus, selectedModel,
                   assistantIndex, turn, inFlight, started>>

\* /use: checkStatus(model) resolved.
CommandUseDone ==
    /\ \E i \in 1..Len(tasks), probeOk \in BOOLEAN, reply \in UITagsReplies :
          LET t == tasks[i]
              st == CheckStatusResult(probeOk, reply, t.model)
          IN  /\ t.kind = "use"
              /\ messages' = IF st.modelAvailable THEN messages
                             ELSE Append(messages, UseUnavailableMessage(t.model))
              /\ tasks' = RemoveAt(tasks, i)
    /\ input' = <<>>
    /\ UNCHANGED <<svcVars, pairVars, isGenerating, ollamaStatus, availableModels,
                   selectedModel, assistantIndex, turn, inFlight, started>>

\* /status: checkStatus(selectedModel) resolved.
CommandStatusDone ==
    /\ \E i \in 1..Len(tasks), probeOk \in BOOLEAN, reply \in UITagsReplies :
          LET t == tasks[i]
              st == CheckStatusResult(probeOk, reply, t.model)
          IN  /\ t.kind = "status"
              /\ ollamaStatus' = StoredStatus(st, t.model)
              /\ messages' = messages \o StatusMessages(st, t.model)
              /\ tasks' = RemoveAt(tasks, i)
    /\ input' = <<>>
    /\ UNCHANGED <<svcVars, pairVars, isGenerating, availableModels, selectedModel,
                   assistantIndex, turn, inFlight, started>>

\* handleSubmit after the await: the catch block when the call rejected, and
\* the finally block.  It runs in the step that settles the call.
Settles == sendRes.status = "pending" /\ sendRes'.status # "pending"

AfterSend(msgs) ==
    IF Settles
    THEN /\ messages' = IF sendRes'.status = "rejected"
                        THEN Append(msgs, SubmitErrorMessage) ELSE msgs
         /\ isGenerating' = GeneratingAfterSettle
         /\ inFlight' = inFlight - 1
    ELSE /\ messages' = msgs
         /\ UNCHANGED <<isGenerating, inFlight>>

GenRest ==
    UNCHANGED <<pairVars, input, ollamaStatus, availableModels, selectedModel,
                assistantIndex, tasks, turn, started>>

\* The steps of the awaited sendMessage call.
GenListed == SendListed /\ tagsReply' \in UITagsReplies /\ AfterSend(messages) /\ GenRest
GenPostFails == SendPostFails /\ AfterSend(messages) /\ GenRest
GenPostStreamed ==
    SendPostStreamed /\ body' \in BodiesUpTo(MaxUILines) /\ AfterSend(messages) /\ GenRest

\* A 'data' event: onToken runs for each token the handler extracted.  The
\* transport hands over whole lines here.
GenDeliver ==
    /\ Deliver
    /\ aligned'
    /\ LET new == SubSeq(stream'.onTokenCalls, Len(stream.onTokenCalls) + 1,
                         Len(stream'.onTokenCalls))
       IN  AfterSend(OnTokens(messages, assistantIndex, new))
    /\ GenRest

GenStreamError == StreamError /\ AfterSend(messages) /\ GenRest

NextUI ==
    \/ Enter
    \/ SubmitWhileGenerating
    \/ Tick
    \/ CheckOllamaStatus
    \/ CheckOllamaModels
    \/ CommandModelsDone
    \/ CommandUseDone
    \/ CommandStatusDone
    \/ GenListed
    \/ GenPostFails
    \/ GenPostStreamed
    \/ GenDeliver
    \/ GenStreamError

SpecUI == Init /\ [][NextUI]_vars

---------------------------------------------------------------------------
\* Two calls side by side: their 'data' and 'error' events in any order.

\* Call c has passed the pre-check and its POST was answered: streaming starts.
PairPost(c) ==
    /\ calls[c].pc = "idle"
    /\ \E b \in BodiesUpTo(MaxPairLines) :
          calls' = [calls EXCEPT ![c] =
                       [pc |-> "streaming", body |-> b, remaining |-> b,
                        errored |-> FALSE, stream |-> InitStream]]
    /\ UNCHANGED <<svcVars, uiVars>>

PairDeliver(c) ==
    /\ calls[c].pc = "streaming"
    /\ \E k \in 1..Len(calls[c].remaining) :
          LET rest == SubSeq(calls[c].remaining, k + 1, Len(calls[c].remaining))
          IN  calls' = [PairData(calls, c, SubSeq(calls[c].remaining, 1, k))
                           EXCEPT ![c].remaining = rest]
    /\ UNCHANGED <<svcVars, uiVars>>

\* An 'error' event of call c; here a stream emits at most one.
PairError(c) ==
    /\ calls[c].pc = "streaming"
    /\ ~calls[c].errored
    /\ calls' = [calls EXCEPT ![c].errored = TRUE,
                              ![c].stream = errorHandler(@, Aborted)]
    /\ UNCHANGED <<svcVars, uiVars>>

\* Both streams have ended: the two calls are over.
PairFinish ==
    /\ \A c \in CallIds : calls[c].pc = "streaming" /\ calls[c].remaining = <<>>
    /\ calls' = [c \in CallIds |-> IdleCall]
    /\ UNCHANGED <<svcVars, uiVars>>

NextPair ==
    \/ \E c \in CallIds : PairPost(c)
    \/ \E c \in CallIds : PairDeliver(c)
    \/ \E c \in CallIds : PairError(c)
    \/ PairFinish

SpecPair == Init /\ [][NextPair]_vars

---------------------------------------------------------------------------
\* Helpers of the properties.

Sending == op = "sendMessage"
Streaming == op = "sendMessage" /\ pc = "streaming"

\* The part of the body the transport has handed over, and its lines.
Delivered == SubSeq(body, 1, Len(body) - Len(remaining))
DeliveredLines == NonBlank(Split(Delivered))
ResponsesOf(ls) == [i \in 1..Len(ls) |-> JsonParse(ls[i]).response]
AllParse(ls) == \A i \in 1..Len(ls) : JsonParse(ls[i]).ok
SomeDone(ls) == \E i \in 1..Len(ls) : JsonParse(ls[i]).ok /\ JsonParse(ls[i]).done

\* A body of newline-terminated JSON records and nothing else.
OnlyRecords(b) ==
    LET ls == Split(b)
    IN  \A i \in 1..(Len(ls) - 1) : JsonParse(ls[i]).ok

\* The tokens up to and including the first record with done, or none.
FirstDone(log) ==
    IF \E i \in 1..Len(log) : log[i].done
    THEN CHOOSE i \in 1..Len(log) : log[i].done /\ \A j \in 1..(i - 1) : ~log[j].done
    ELSE 0

ErrorHeads ==
    {"Error: Model \"", ConnectMessage[1], "Error communicating with Ollama: "}

---------------------------------------------------------------------------
\* C1: when the model is not among the models getModels returned (the empty
\* list of a failed listing included), sendMessage has returned a string that
\* contains the model name and has issued no POST to /generate, with or
\* without onToken.
C1_AbsentModelNoGenerate ==
    (Sending /\ pc # "tags" /\ model \notin Range(Names(models)))
        => /\ pc = "done"
           /\ sendRes.status = "returned"
           /\ model \in Range(sendRes.value)
           /\ postCount = 0

C1_Witness ==
    /\ Sending /\ pc = "done" /\ streamed
    /\ model = "foo"
    /\ tagsReply.kind = "neterr"
    /\ postCount = 0
    /\ "foo" \in Range(sendRes.value)

\* C2: once a body of JSON records has been delivered whole, in whatever
\* pieces, the onToken calls and the completion are those of one delivery of
\* the whole body.
C2_SplitEqualsWhole ==
    (Streaming /\ remaining = <<>> /\ errors = 0 /\ OnlyRecords(body))
        => LET whole == dataHandler(InitStream, body)
           IN  /\ stream.onTokenCalls = whole.onTokenCalls
               /\ sendRes = Adopt(whole.promise)

\* C3: onToken is called once per decoded record, in order, with its response
\* field; the resolved string is the concatenation of the tokens up to and
\* including the first done record; and when whole well-formed lines arrive,
\* the calls are the responses of the lines in their order of arrival.
C3_TokensInOrder ==
    Streaming =>
        /\ Len(stream.onTokenCalls) = Len(stream.parsed)
        /\ \A i \in 1..Len(stream.parsed) :
              stream.onTokenCalls[i] = stream.parsed[i].response
        /\ sendRes.status = "returned" =>
              /\ FirstDone(stream.parsed) > 0
              /\ sendRes.value = SubSeq(stream.onTokenCalls, 1, FirstDone(stream.parsed))
        /\ (aligned /\ AllParse(DeliveredLines)) =>
              /\ stream.onTokenCalls = ResponsesOf(DeliveredLines)
              /\ (SomeDone(DeliveredLines) /\ errors = 0) => sendRes.status = "returned"

C3_Witness ==
    /\ Streaming /\ remaining = <<>>
    /\ body = Encode([response |-> "a", done |-> FALSE]) \o <<NL>>
              \o Encode([response |-> "b", done |-> TRUE]) \o <<NL>>
    /\ stream.onTokenCalls = <<"a", "b">>
    /\ sendRes = Returned(<<"a", "b">>)

\* C4: the completion is resolved by the first done record, and once resolved
\* no later event of the stream changes it.
C4_ResolvedOnce ==
    /\ [](Streaming /\ stream.promise.status = "returned"
            => /\ FirstDone(stream.parsed) > 0
               /\ stream.promise.value
                     = SubSeq(stream.fullResponse, 1, FirstDone(stream.parsed)))
    /\ [][(Streaming /\ stream.promise.status = "returned" /\ pc' = "streaming")
            => (stream'.promise = stream.promise /\ sendRes' = sendRes)]_vars

C4_Witness ==
    /\ Streaming
    /\ stream.promise.status = "returned"
    /\ Len(stream.parsed) > FirstDone(stream.parsed)
    /\ stream.parsed[Len(stream.parsed)].done
    /\ stream.promise.value # stream.fullResponse

\* C5: with whole lines delivered and no error event, every well-formed line
\* delivered so far has been passed to onToken and added to fullResponse,
\* malformed lines notwithstanding, and a done record among them has resolved
\* the call.
C5_MalformedSkipped ==
    (Streaming /\ aligned /\ errors = 0)
        => LET good == SelectSeq(DeliveredLines, LAMBDA l : JsonParse(l).ok)
           IN  /\ stream.onTokenCalls = ResponsesOf(good)
               /\ stream.fullResponse = ResponsesOf(good)
               /\ SomeDone(good) => sendRes.status = "returned"

\* C6: sendMessage never rejects, and after a failed listing or a failed POST
\* it has returned an error string.
C6_NeverRejects ==
    Sending =>
        /\ sendRes.status # "rejected"
        /\ (pc = "done" /\ fault.where \in {"tags", "post"})
              => /\ sendRes.status = "returned"
                 /\ Head(sendRes.value) \in ErrorHeads

\* C7: after a failed GET /version, checkStatus has returned
\* {running: false, modelAvailable: false} whatever the model, without
\* throwing and without listing the models.
C7_ProbeFailed ==
    (op = "checkStatus" /\ probe = "fail")
        => /\ pc = "done"
           /\ statusRes = [threw |-> FALSE, running |-> FALSE, modelAvailable |-> FALSE]
           /\ tagsReply = NoReply

C7_Witness ==
    /\ op = "checkStatus" /\ probe = "fail" /\ pc = "done"
    /\ model = "mistral"
    /\ ~statusRes.running /\ ~statusRes.modelAvailable

\* C8: after a successful GET /version, checkStatus returns running and
\* modelAvailable exactly when the model is among the models getModels
\* returned in this check: never when the listing failed, and
\* {running: true, modelAvailable: true} for llama2 listed with mistral.
C8_ProbeOk ==
    (op = "checkStatus" /\ probe = "ok" /\ pc = "done")
        => /\ ~statusRes.threw
           /\ statusRes.running
           /\ statusRes.modelAvailable <=> (model \in Range(Names(models)))
           /\ tagsReply.kind = "neterr" => ~statusRes.modelAvailable
           /\ (model = "llama2"
               /\ tagsReply.models = <<Descriptor("llama2"), Descriptor("mistral")>>)
                 => statusRes.modelAvailable

C8_Witness ==
    /\ op = "checkStatus" /\ probe = "ok" /\ pc = "done"
    /\ model = "llama2"
    /\ tagsReply.models = <<Descriptor("llama2"), Descriptor("mistral")>>
    /\ statusRes = [threw |-> FALSE, running |-> TRUE, modelAvailable |-> TRUE]

\* C9: getModels never throws; it returns the reply's models as they came,
\* and the empty sequence when the request failed, the body was empty or the
\* reply had no models field.
C9_GetModelsTotal ==
    (op = "getModels" /\ pc = "done")
        => /\ ~modelsRes.threw
           /\ modelsRes.value
                 = IF tagsReply.kind = "models" THEN tagsReply.models ELSE <<>>

C9_Witness ==
    /\ op = "getModels" /\ pc = "done"
    /\ tagsReply.kind = "neterr"
    /\ modelsRes = Return(<<>>)

\* C10: after a transport failure of the listing or of the POST, the string
\* sendMessage returned is the could-not-connect message when the failure was
\* a refused connection, and the generic message with the error's message
\* otherwise.
C10_FailureKinds ==
    (Sending /\ pc = "done" /\ fault.where \in {"tags", "post"})
        => sendRes.value
              = IF fault.err.code = "ECONNREFUSED"
                THEN ConnectMessage
                ELSE GenericMessage(fault.err, model)

\* C16: the streamed completion is pending while no error event has come
\* and no done record has been decoded; an error event on a pending
\* completion rejects it, a first done record resolves it, and a settled
\* completion never changes (a done record after an error does not resolve
\* it, an error after done does not reject it).
C16_CompletionStates ==
    /\ [](Streaming =>
            /\ stream.promise.status = "pending"
                  <=> (errors = 0 /\ FirstDone(stream.parsed) = 0)
            /\ stream.promise.status = "rejected"
                  => (errors > 0 /\ stream.promise.err = Aborted)
            /\ sendRes = stream.promise)
    /\ [][(Streaming /\ pc' = "streaming") =>
            /\ stream.promise.status # "pending" => stream'.promise = stream.promise
            /\ (stream.promise.status = "pending" /\ errors' > errors)
                  => stream'.promise.status = "rejected"]_vars

C16_Witness ==
    /\ Streaming
    /\ stream.promise.status = "rejected"
    /\ FirstDone(stream.parsed) > 0
    /\ sendRes.status = "rejected"

\* C17: a call of sendMessage issues at most one POST to /generate; in
\* buffered mode with a listed model it has issued exactly one, has called no
\* token callback and, the POST having succeeded, has returned the reply's
\* response field.
C17_NoRetry ==
    Sending =>
        /\ postCount <= 1
        /\ (pc # "tags" /\ model \in Range(Names(models))) => postCount = 1
        /\ (pc = "done" /\ ~streamed /\ model \in Range(Names(models)))
              => /\ stream.onTokenCalls = <<>>
                 /\ fault.where # "post" => sendRes = Returned(body)

C17_Witness ==
    /\ Sending /\ pc = "done" /\ ~streamed
    /\ model = "mistral"
    /\ postCount = 1
    /\ fault = NoFault
    /\ sendRes = Returned(<<"a", "b">>)

\* C18: a streamed call whose body holds a done record and whose stream has
\* delivered the whole body without an error event has settled.
C18_DoneSettles ==
    (Streaming /\ remaining = <<>> /\ errors = 0 /\ SomeDone(NonBlank(Split(body))))
        => sendRes.status # "pending"

RECURSIVE IsSubSeq(_, _)
\* s can be had from t by leaving elements out.
IsSubSeq(s, t) ==
    IF s = <<>> THEN TRUE
    ELSE IF t = <<>> THEN FALSE
    ELSE IF Head(s) = Head(t) THEN IsSubSeq(Tail(s), Tail(t))
    ELSE IsSubSeq(s, Tail(t))

\* C15: with two streamed calls in flight and their events interleaved, each
\* call's onToken has received only tokens of records of its own body, in the
\* body's order, its fullResponse holds exactly the tokens its own onToken
\* received, and it resolves with the first tokens of that sequence, up to
\* its own first done record.
C15_CallsIndependent ==
    \A c \in CallIds :
        LET st == calls[c].stream
            own == NonBlank(Split(calls[c].body))
            good == SelectSeq(own, LAMBDA l : JsonParse(l).ok)
        IN  /\ IsSubSeq(st.parsed,
                        [i \in 1..Len(good) |->
                            [response |-> JsonParse(good[i]).response,
                             done |-> JsonParse(good[i]).done]])
            /\ st.onTokenCalls = [i \in 1..Len(st.parsed) |-> st.parsed[i].response]
            /\ st.fullResponse = st.onTokenCalls
            /\ Adopt(st.promise).status = "returned"
                  => /\ FirstDone(st.parsed) > 0
                     /\ Adopt(st.promise).value
                           = SubSeq(st.onTokenCalls, 1, FirstDone(st.parsed))

C15_Witness ==
    /\ calls[1].pc = "streaming" /\ calls[2].pc = "streaming"
    /\ calls[1].remaining = <<>> /\ calls[2].remaining = <<>>
    /\ calls[1].stream.onTokenCalls = <<"a">>
    /\ calls[2].stream.onTokenCalls = <<"b">>
    /\ Adopt(calls[1].stream.promise) = Returned(<<"a">>)
    /\ Adopt(calls[2].stream.promise) = Returned(<<"b">>)


---------------------------------------------------------------------------
\* TerminalChat properties (SpecUI).

\* The step in which the awaited sendMessage call ends in failure: it rejects
\* (stream error) or returns one of its error strings.
FailsNow ==
    /\ op = "sendMessage" /\ Settles
    /\ sendRes'.status = "rejected" \/ pc' = "done"

Appended == SubSeq(messages', Len(messages) + 1, Len(messages'))

\* C19: during a generation every token onToken delivers goes to the end of
\* the assistant message created for the turn, and the user's message of the
\* turn keeps the prompt.
C19_TokensInAssistantMessage ==
    isGenerating =>
        /\ turn.assistant \in DOMAIN messages
        /\ messages[turn.user] = Msg("user", turn.prompt)
        /\ messages[turn.assistant] = Msg("assistant", stream.onTokenCalls)

\* C11: when a generation started by handleSubmit fails, a message carrying
\* the explanatory text (sendMessage's error string, or the catch block's
\* text after a rejection) is appended to the chat log.
C11_FailureExplained ==
    [][FailsNow =>
          \E i \in 1..Len(Appended) :
              Appended[i].content = IF sendRes'.status = "rejected"
                                    THEN SubmitErrorMessage.content
                                    ELSE sendRes'.value]_vars

\* C14: a status check that completes during a generation leaves the
\* messages list, which onToken writes, as it is.
C14_DisjointWrites ==
    [][(isGenerating /\ (CheckOllamaStatus \/ CheckOllamaModels))
          => messages' = messages]_vars

\* C20: a status is stored only for the selected model, and no message about
\* a model other than the selected one is appended by a status check.
C20_StatusOfSelectedModel ==
    [][/\ ollamaStatus' # ollamaStatus => ollamaStatus'.checkedFor = selectedModel'
       /\ \A i \in 1..Len(Appended), m \in ModelNames, l \in ModelLists :
              Appended[i] = UnavailableMessage(m, l) => m = selectedModel']_vars

\* C13: at most one sendMessage call of handleSubmit is in flight, and no
\* step taken while isGenerating holds starts another one.
C13_OneInFlight ==
    /\ [](inFlight <= 1)
    /\ [][isGenerating => inFlight' <= inFlight]_vars

\* A prompt was submitted while a generation was awaited, and nothing started.
C13_Witness ==
    isGenerating /\ input = Prompt /\ inFlight = 1 /\ started.turns = 1

ModelMissing ==
    ollamaStatus.set /\ ollamaStatus.running /\ ~ollamaStatus.modelAvailable

\* C21: whenever the status shows the server running but the model
\* unavailable and no generation is awaited, the input takes the user's line,
\* so a slash-command such as /models or /use can be submitted.
C21_CommandsReachable ==
    (ModelMissing /\ ~isGenerating) => ~InputDisabled

====
